---- MODULE Spec2Model ----
(***************************************************************************)
(* YearOneBook: the collage editor.  App (the host component) owns the     *)
(* slots, the caption and the selected export format; CollageCanvas owns   *)
(* the drag state and draws / hit-tests / exports the single canvas.       *)
(*                                                                         *)
(* Numbers.  The program computes in floating point; the model computes    *)
(* the same expressions exactly, on integers:                              *)
(*   - unit coordinates (slot x, y, radius, caption anchor, pointer        *)
(*     display fractions) are in thousandths: UNIT = 1.0;                  *)
(*   - a canvas of w x h pixels is kept as (w/g, h/g) with g = gcd(w, h);  *)
(*     a pixel quantity p is held as p * UNIT / g.  Every comparison the   *)
(*     code makes between pixel quantities is homogeneous in that factor;  *)
(*   - imageOffsetX / imageOffsetY are in 1/(UNIT * OFFSET_DEN), so that   *)
(*     the division by scaleBase in handleMouseMove is exact.              *)
(*                                                                         *)
(* Rendering.  The handlers of CollageCanvas are closures over the props   *)
(* and state of the last render.  React re-renders before the next handler *)
(* runs after every event except a pointer move, whose re-render is        *)
(* scheduled and may come after further pointer moves.  A pointer move     *)
(* sets lastMousePos and messagePos (and the slots' offsets, which no      *)
(* handler reads): `view` holds the values of these two that the last      *)
(* render captured; every other value a handler reads is the current one.  *)
(***************************************************************************)
EXTENDS Integers, Sequences, FiniteSets, TLC

VARIABLES
    slots,          \* App: useState<PhotoSlot[]>(INITIAL_SLOTS)
    message,        \* App: caption text
    messagePos,     \* App: caption anchor, fractions of the whole canvas
    selectedFormat, \* App: index into FORMATS
    isDragging,     \* CollageCanvas: useState(false)
    dragTarget,     \* CollageCanvas: null | {type:'message'} | {type:'slot', id}
    lastMousePos,   \* CollageCanvas: last pointer position (display fraction)
    cursorStyle,    \* CollageCanvas: 'default' | 'grab' | 'grabbing'
    view,           \* messagePos and lastMousePos as the last render captured them
    pending,        \* uploads whose FileReader / Image callbacks are in flight
    nUploads,       \* number of uploads issued so far (the next Image object)
    latestUpload,   \* history: per slot id, the most recent upload issued
    applied,        \* history: uploads whose decoded image was applied
    nMoves,         \* history: number of pointer moves that made an edit
    exported,       \* what the last download serialized
    lastOp          \* history: the handler that ran last

vars == << slots, message, messagePos, selectedFormat, isDragging, dragTarget,
           lastMousePos, cursorStyle, view, pending, nUploads, latestUpload,
           applied, nMoves, exported, lastOp >>

----------------------------------------------------------------------------
(* Bounds of the exploration *)

\* uploads issued in one behaviour
MaxUploads == 2
\* editing pointer moves in one behaviour of Spec
MaxPans == 1
\* editing pointer moves in one behaviour of DragSpec
MaxMoves == 1
\* editing pointer moves in one behaviour of MoveSpec
MaxBurst == 2

----------------------------------------------------------------------------
(* Number representation *)

UNIT == 1000
OFFSET_DEN == 36

Abs(n) == IF n < 0 THEN -n ELSE n

Min(a, b) == IF a < b THEN a ELSE b

RECURSIVE Gcd(_, _)
Gcd(a, b) == IF b = 0 THEN a ELSE Gcd(b, a % b)

\* a * b / UNIT rounded to the nearest thousandth
MulUnit(a, b) ==
    LET p == a * b
    IN  IF p >= 0 THEN (p + UNIT \div 2) \div UNIT
                  ELSE -((-p + UNIT \div 2) \div UNIT)

\* Math.cos of the angles the clock face uses, in thousandths
Cos(deg) ==
    LET d == ((deg % 360) + 360) % 360
    IN  CASE d = 0   -> 1000
          [] d = 30  -> 866
          [] d = 60  -> 500
          [] d = 90  -> 0
          [] d = 120 -> -500
          [] d = 150 -> -866
          [] d = 180 -> -1000
          [] d = 210 -> -866
          [] d = 240 -> -500
          [] d = 270 -> 0
          [] d = 300 -> 500
          [] d = 330 -> 866

Sin(deg) == Cos(deg - 90)

----------------------------------------------------------------------------
(* App: configuration and INITIAL_SLOTS *)

CENTER_X == 500
CENTER_Y == 500
OUTER_RADIUS == 360
SLOT_RADIUS == 80
CENTER_RADIUS == 160

LABELS == << "Day 1", "Month 1", "Month 2", "Month 3",
             "Month 4", "Month 5", "Month 6", "Month 7",
             "Month 8", "Month 9", "Month 10", "Month 11" >>

SlotIdOf(index) ==
    << "slot-0", "slot-1", "slot-2", "slot-3", "slot-4", "slot-5",
       "slot-6", "slot-7", "slot-8", "slot-9", "slot-10", "slot-11" >>[index + 1]

NullFile == "null"
NullImage == 0

RingSlot(index) ==
    LET angleDeg == index * 30 - 90
    IN  [ id |-> SlotIdOf(index),
          label |-> LABELS[index + 1],
          image |-> NullImage,
          file |-> NullFile,
          x |-> CENTER_X + MulUnit(OUTER_RADIUS, Cos(angleDeg)),
          y |-> CENTER_Y + MulUnit(OUTER_RADIUS, Sin(angleDeg)),
          radius |-> SLOT_RADIUS,
          isCenter |-> FALSE,
          imageOffsetX |-> 0,
          imageOffsetY |-> 0 ]

CenterSlot ==
    [ id |-> "birthday",
      label |-> "1st Birthday",
      image |-> NullImage,
      file |-> NullFile,
      x |-> CENTER_X,
      y |-> CENTER_Y,
      radius |-> CENTER_RADIUS,
      isCenter |-> TRUE,
      imageOffsetX |-> 0,
      imageOffsetY |-> 0 ]

INITIAL_SLOTS == [ i \in 1..12 |-> RingSlot(i - 1) ] \o << CenterSlot >>

FORMATS == << [ id |-> "sq",    w |-> 3000, h |-> 3000 ],
              [ id |-> "port",  w |-> 2400, h |-> 3000 ],
              [ id |-> "land",  w |-> 3200, h |-> 1800 ],
              [ id |-> "story", w |-> 2160, h |-> 3840 ] >>

DefaultMessage == "Happy 1st Birthday to our little prince!"

InitialMessagePos == [ x |-> 500, y |-> 920 ]

PreviewWidth == 600

----------------------------------------------------------------------------
(* Inputs of the environment *)

\* the files the user picks: name, natural width and height of the picture
Files == { [ name |-> "wide.jpg",   width |-> 4000, height |-> 2000 ],
           [ name |-> "tall.jpg",   width |-> 1500, height |-> 3000 ],
           [ name |-> "square.jpg", width |-> 2000, height |-> 2000 ] }

FileNamed(n) == CHOOSE f \in Files : f.name = n

\* the PhotoUploader rows the user uploads to
UploadSlots == { "birthday", "slot-6" }

\* the uploads of Spec: a PhotoUploader row and the file picked for it
UploadChoices == { [ id |-> "birthday", file |-> "wide.jpg" ],
                   [ id |-> "slot-6",   file |-> "tall.jpg" ] }

\* the formats picked in Spec: square and landscape
FormatChoices == { 1, 3 }

\* pointer positions, as fractions of the displayed canvas:
\* on the hero slot, and on slot-6 under the initial caption
PointerPositions == { [ x |-> 500, y |-> 500 ], [ x |-> 500, y |-> 860 ] }

\* the pointer positions of DragSpec: on slot-6 under the initial caption, on
\* the hero slot, on slot-9 (which never holds an image), on no slot
DragPositions ==
    { [ x |-> 500, y |-> 860 ], [ x |-> 500, y |-> 500 ],
      [ x |-> 200, y |-> 500 ], [ x |-> 200, y |-> 140 ] }

\* the pointer positions of MoveSpec: on the hero slot, on slot-6 under the
\* initial caption, on the bottom edge of the displayed canvas
MovePositions ==
    { [ x |-> 500, y |-> 500 ], [ x |-> 500, y |-> 860 ],
      [ x |-> 500, y |-> 1000 ] }

\* pointer positions probed against the drawn circles: centres, points on the
\* circles of the hero slot and of slot-6, points between and outside
ProbePositions ==
    { [ x |-> px, y |-> py ] : px \in { 340, 500, 660 },
                               py \in { 500, 780, 860, 940 } }

Messages == { "", DefaultMessage }

----------------------------------------------------------------------------
(* CollageCanvas: geometry shared by draw and the handlers *)

\* the width and height props, reduced by their gcd
Reduced ==
    [ f \in 1..Len(FORMATS) |->
        [ w |-> FORMATS[f].w \div Gcd(FORMATS[f].w, FORMATS[f].h),
          h |-> FORMATS[f].h \div Gcd(FORMATS[f].w, FORMATS[f].h) ] ]

Width(f) == Reduced[f].w
Height(f) == Reduced[f].h

scaleBase(f) == Min(Width(f), Height(f))
contentSize(f) == scaleBase(f)
paddingX(f) == ((Width(f) - contentSize(f)) * UNIT) \div 2
paddingY(f) == ((Height(f) - contentSize(f)) * UNIT) \div 2

\* Math.sqrt(dx^2 + dy^2) < r, for r >= 0, without the square root
DistLess(dx, dy, r) ==
    /\ Abs(dx) < r
    /\ Abs(dy) < r
    /\ dx * dx + dy * dy < r * r

TEXT_HIT == 150

\* handleMouseDown, step 1: the caption hit-test
HitsText(pos, mPos, f) ==
    LET textDistX == (pos.x - mPos.x) * Width(f)
        textDistY == (pos.y - mPos.y) * Height(f)
    IN  DistLess(textDistX, textDistY, scaleBase(f) * TEXT_HIT)

\* the slot hit-test mapping slot coordinates to the whole canvas: no padding
HitsSlot_NoPadding(pos, slot, f) ==
    LET pointerPixelX == pos.x * Width(f)
        pointerPixelY == pos.y * Height(f)
        slotCx == slot.x * contentSize(f)
        slotCy == slot.y * contentSize(f)
        r == slot.radius * contentSize(f)
    IN  DistLess(pointerPixelX - slotCx, pointerPixelY - slotCy, r)

\* handleMouseDown, step 2: dist < r for one slot
HitsSlot(pos, slot, f) ==
    LET pointerPixelX == pos.x * Width(f)
        pointerPixelY == pos.y * Height(f)
        slotCx == paddingX(f) + slot.x * contentSize(f)
        slotCy == paddingY(f) + slot.y * contentSize(f)
        r == slot.radius * contentSize(f)
    IN  DistLess(pointerPixelX - slotCx, pointerPixelY - slotCy, r)

NullTarget == [ type |-> "null", id |-> "" ]
MessageTarget == [ type |-> "message", id |-> "" ]
SlotTarget(id) == [ type |-> "slot", id |-> id ]

\* the pixel circle draw clips a slot's photo to: centre and radius
SlotCircle(slot, f) ==
    [ cx |-> paddingX(f) + slot.x * contentSize(f),
      cy |-> paddingY(f) + slot.y * contentSize(f),
      r  |-> slot.radius * contentSize(f) ]

\* draw, step 3: the caption is drawn only if (message)
DrawsCaption(m) == m # ""

\* draw, the branch on slot.image: the photo, or else the placeholder
DrawsPlaceholder(slot) == slot.image = NullImage

\* aspect fit instead of aspect fill: the comparison of the aspects inverted
AspectFill_Inverted(imgWidth, imgHeight, cx, cy, r) ==
    IF imgWidth < imgHeight
    THEN [ drawWidth |-> (r * 2 * imgWidth) \div imgHeight, drawHeight |-> r * 2,
           offsetX |-> cx - ((r * 2 * imgWidth) \div imgHeight) \div 2,
           offsetY |-> cy - r ]
    ELSE [ drawWidth |-> r * 2, drawHeight |-> (r * 2 * imgHeight) \div imgWidth,
           offsetX |-> cx - r,
           offsetY |-> cy - ((r * 2 * imgHeight) \div imgWidth) \div 2 ]

\* draw, "Aspect Fill": the rectangle drawImage gets before the pan offset is
\* added; imgAspect = imgWidth / imgHeight is compared with drawAspect = 1
AspectFill(imgWidth, imgHeight, cx, cy, r) ==
    IF imgWidth > imgHeight
    THEN [ drawWidth |-> (r * 2 * imgWidth) \div imgHeight, drawHeight |-> r * 2,
           offsetX |-> cx - ((r * 2 * imgWidth) \div imgHeight) \div 2,
           offsetY |-> cy - r ]
    ELSE [ drawWidth |-> r * 2, drawHeight |-> (r * 2 * imgHeight) \div imgWidth,
           offsetX |-> cx - r,
           offsetY |-> cy - ((r * 2 * imgHeight) \div imgWidth) \div 2 ]

\* the loop without the test that the slot holds an image
SlotHits_AnySlot(pos, sl, f) ==
    { i \in 1..Len(sl) : HitsSlot(pos, sl[i], f) }

\* the for-loop of handleMouseDown: the indices it would return at
SlotHits(pos, sl, f) ==
    { i \in 1..Len(sl) : HitsSlot(pos, sl[i], f) /\ sl[i].image # NullImage }

FirstOf(S) == CHOOSE i \in S : \A j \in S : i <= j

----------------------------------------------------------------------------
(* State after construction *)

SlotIds == { INITIAL_SLOTS[i].id : i \in 1..Len(INITIAL_SLOTS) }

\* what one render of CollageCanvas captures
Snapshot(mPos, last) == [ messagePos |-> mPos, lastMousePos |-> last ]

NoExport == [ surface |-> "none", width |-> 0, height |-> 0 ]

Op(name, id, panned) ==
    [ op |-> name, id |-> id, dragging |-> isDragging, panned |-> panned ]

Init ==
    /\ slots = INITIAL_SLOTS
    /\ message = DefaultMessage
    /\ messagePos = InitialMessagePos
    /\ selectedFormat = 1
    /\ isDragging = FALSE
    /\ dragTarget = NullTarget
    /\ lastMousePos = [ x |-> 0, y |-> 0 ]
    /\ cursorStyle = "default"
    /\ view = Snapshot(InitialMessagePos, [ x |-> 0, y |-> 0 ])
    /\ pending = {}
    /\ nUploads = 0
    /\ latestUpload = [ id \in SlotIds |-> 0 ]
    /\ applied = {}
    /\ nMoves = 0
    /\ exported = NoExport
    /\ lastOp = [ op |-> "init", id |-> "", dragging |-> FALSE, panned |-> FALSE ]

\* the re-render React runs before the next handler
Flush ==
    view' = Snapshot(messagePos', lastMousePos')

----------------------------------------------------------------------------
(* App: uploads *)

\* handleUpload: new FileReader, readAsDataURL(file)
handleUpload(id, file) ==
    /\ nUploads < MaxUploads
    /\ nUploads' = nUploads + 1
    /\ pending' = pending \cup { [ token |-> nUploads + 1, id |-> id,
                                  file |-> file, stage |-> "reading" ] }
    /\ latestUpload' = [ latestUpload EXCEPT ![id] = nUploads + 1 ]
    /\ exported' = NoExport
    /\ lastOp' = Op("other", "", FALSE)
    /\ UNCHANGED << slots, message, messagePos, selectedFormat, isDragging,
                    dragTarget, lastMousePos, cursorStyle, view, applied, nMoves >>

\* reader.onload: new Image(), img.src = the data URL
readerOnload(u) ==
    /\ u \in pending
    /\ u.stage = "reading"
    /\ pending' = (pending \ { u }) \cup { [ u EXCEPT !.stage = "decoding" ] }
    /\ exported' = NoExport
    /\ lastOp' = Op("other", "", FALSE)
    /\ UNCHANGED << slots, message, messagePos, selectedFormat, isDragging,
                    dragTarget, lastMousePos, cursorStyle, view, nUploads,
                    latestUpload, applied, nMoves >>

\* the updater without the reset of the pan offset
SetSlotImage_KeepOffset(prev, id, img, file) ==
    [ i \in 1..Len(prev) |->
        IF prev[i].id = id
        THEN [ prev[i] EXCEPT !.image = img, !.file = file ]
        ELSE prev[i] ]

\* the updater img.onload passes to setSlots
SetSlotImage(prev, id, img, file) ==
    [ i \in 1..Len(prev) |->
        IF prev[i].id = id
        THEN [ prev[i] EXCEPT !.image = img, !.file = file,
                              !.imageOffsetX = 0, !.imageOffsetY = 0 ]
        ELSE prev[i] ]

SlotWithId(sl, id) == sl[CHOOSE i \in 1..Len(sl) : sl[i].id = id]

\* img.onload: the decoded image is applied to the slot
imgOnload(u) ==
    /\ u \in pending
    /\ u.stage = "decoding"
    /\ pending' = pending \ { u }
    /\ slots' = SetSlotImage(slots, u.id, u.token, u.file)
    /\ applied' = applied \cup { u.token }
    /\ exported' = NoExport
    /\ lastOp' = Op("imgOnload", u.id,
                    \/ SlotWithId(slots, u.id).imageOffsetX # 0
                    \/ SlotWithId(slots, u.id).imageOffsetY # 0)
    /\ UNCHANGED << message, messagePos, selectedFormat, isDragging, dragTarget,
                    lastMousePos, cursorStyle, nUploads, latestUpload, nMoves >>
    /\ Flush

\* a failure handler that empties the slot of the upload
loadFails_ClearsSlot(u) ==
    /\ u \in pending
    /\ pending' = pending \ { u }
    /\ slots' = SetSlotImage(slots, u.id, NullImage, NullFile)
    /\ exported' = NoExport
    /\ lastOp' = Op("other", "", FALSE)
    /\ UNCHANGED << message, messagePos, selectedFormat, isDragging,
                    dragTarget, lastMousePos, cursorStyle, view, nUploads,
                    latestUpload, applied, nMoves >>

\* the read or the decode fails: no onerror is set, no callback ever runs
loadFails(u) ==
    /\ u \in pending
    /\ pending' = pending \ { u }
    /\ exported' = NoExport
    /\ lastOp' = Op("other", "", FALSE)
    /\ UNCHANGED << slots, message, messagePos, selectedFormat, isDragging,
                    dragTarget, lastMousePos, cursorStyle, view, nUploads,
                    latestUpload, applied, nMoves >>

\* the updater moving the slot instead of panning its image
handleUpdateSlotOffset_MovesSlot(prev, id, dx, dy) ==
    [ i \in 1..Len(prev) |->
        IF prev[i].id = id
        THEN [ prev[i] EXCEPT !.x = prev[i].x + dx, !.y = prev[i].y + dy ]
        ELSE prev[i] ]

\* the updater handleUpdateSlotOffset passes to setSlots
handleUpdateSlotOffset(prev, id, dx, dy) ==
    [ i \in 1..Len(prev) |->
        IF prev[i].id = id
        THEN [ prev[i] EXCEPT !.imageOffsetX = prev[i].imageOffsetX + dx,
                              !.imageOffsetY = prev[i].imageOffsetY + dy ]
        ELSE prev[i] ]

\* the format toolbar: setSelectedFormat(fmt)
selectFormat(f) ==
    /\ selectedFormat' = f
    /\ exported' = NoExport
    /\ lastOp' = Op("other", "", FALSE)
    /\ UNCHANGED << slots, message, messagePos, isDragging, dragTarget,
                    lastMousePos, cursorStyle, pending, nUploads, latestUpload,
                    applied, nMoves >>
    /\ Flush

\* the textarea and the AI writer: setMessage(text)
setMessage(m) ==
    /\ message' = m
    /\ exported' = NoExport
    /\ lastOp' = Op("other", "", FALSE)
    /\ UNCHANGED << slots, messagePos, selectedFormat, isDragging, dragTarget,
                    lastMousePos, cursorStyle, pending, nUploads, latestUpload,
                    applied, nMoves >>
    /\ Flush

----------------------------------------------------------------------------
(* CollageCanvas: the interaction handlers *)

\* the two hit-tests in the other order: slots before the caption
HitTest_SlotsFirst(pos, mPos, sl, f) ==
    IF SlotHits(pos, sl, f) # {}
    THEN SlotTarget(sl[FirstOf(SlotHits(pos, sl, f))].id)
    ELSE IF HitsText(pos, mPos, f)
         THEN MessageTarget
         ELSE NullTarget

\* the target handleMouseDown sets, NullTarget when it sets none
HitTest(pos, mPos, sl, f) ==
    IF HitsText(pos, mPos, f)
    THEN MessageTarget
    ELSE IF SlotHits(pos, sl, f) # {}
         THEN SlotTarget(sl[FirstOf(SlotHits(pos, sl, f))].id)
         ELSE NullTarget

\* a pointer-down that tests the caption only when a caption is drawn
handleMouseDown_TextGuard(pos) ==
    LET hit == IF DrawsCaption(message)
               THEN HitTest(pos, view.messagePos, slots, selectedFormat)
               ELSE IF SlotHits(pos, slots, selectedFormat) # {}
                    THEN SlotTarget(slots[FirstOf(SlotHits(pos, slots, selectedFormat))].id)
                    ELSE NullTarget
    IN  /\ lastMousePos' = pos
        /\ IF hit # NullTarget
           THEN /\ isDragging' = TRUE
                /\ dragTarget' = hit
           ELSE UNCHANGED << isDragging, dragTarget >>
        /\ exported' = NoExport
        /\ lastOp' = Op("handleMouseDown", "", FALSE)
        /\ UNCHANGED << slots, message, messagePos, selectedFormat, cursorStyle,
                        pending, nUploads, latestUpload, applied, nMoves >>
        /\ Flush

\* onMouseDown / onTouchStart
handleMouseDown(pos) ==
    LET hit == HitTest(pos, view.messagePos, slots, selectedFormat)
    IN  /\ lastMousePos' = pos
        /\ IF hit # NullTarget
           THEN /\ isDragging' = TRUE
                /\ dragTarget' = hit
           ELSE UNCHANGED << isDragging, dragTarget >>
        /\ exported' = NoExport
        /\ lastOp' = Op("handleMouseDown", "", FALSE)
        /\ UNCHANGED << slots, message, messagePos, selectedFormat, cursorStyle,
                        pending, nUploads, latestUpload, applied, nMoves >>
        /\ Flush

\* the delta left in display fractions
SlotDelta_Unscaled(dRel, pixels, f) == dRel * OFFSET_DEN

\* the slot-unit delta of handleMouseMove for a display-fraction delta
SlotDelta(dRel, pixels, f) == (dRel * pixels * OFFSET_DEN) \div scaleBase(f)

\* a move that shifts the caption anchor along with the photo of the slot
handleMouseMove_MovesBoth(pos) ==
    LET dRelX == pos.x - view.lastMousePos.x
        dRelY == pos.y - view.lastMousePos.y
    IN  /\ cursorStyle' = IF isDragging THEN "grabbing" ELSE "grab"
        /\ IF ~isDragging \/ dragTarget = NullTarget
           THEN UNCHANGED << messagePos, slots, lastMousePos, nMoves >>
           ELSE /\ nMoves' = nMoves + 1
                /\ messagePos' = [ x |-> view.messagePos.x + dRelX,
                                   y |-> view.messagePos.y + dRelY ]
                /\ IF dragTarget.type = "message"
                   THEN UNCHANGED slots
                   ELSE slots' = handleUpdateSlotOffset(slots, dragTarget.id,
                                    SlotDelta(dRelX, Width(selectedFormat), selectedFormat),
                                    SlotDelta(dRelY, Height(selectedFormat), selectedFormat))
                /\ lastMousePos' = pos
        /\ exported' = NoExport
        /\ lastOp' = Op("handleMouseMove", "", FALSE)
        /\ UNCHANGED << message, selectedFormat, isDragging, dragTarget, view,
                        pending, nUploads, latestUpload, applied >>

\* onMouseMove / onTouchMove
handleMouseMove(pos) ==
    LET dRelX == pos.x - view.lastMousePos.x
        dRelY == pos.y - view.lastMousePos.y
    IN  /\ cursorStyle' = IF isDragging THEN "grabbing" ELSE "grab"
        /\ IF ~isDragging \/ dragTarget = NullTarget
           THEN UNCHANGED << messagePos, slots, lastMousePos, nMoves >>
           ELSE /\ nMoves' = nMoves + 1
                /\ IF dragTarget.type = "message"
                   THEN /\ messagePos' = [ x |-> view.messagePos.x + dRelX,
                                           y |-> view.messagePos.y + dRelY ]
                        /\ UNCHANGED slots
                   ELSE /\ slots' = handleUpdateSlotOffset(slots, dragTarget.id,
                                        SlotDelta(dRelX, Width(selectedFormat), selectedFormat),
                                        SlotDelta(dRelY, Height(selectedFormat), selectedFormat))
                        /\ UNCHANGED messagePos
                /\ lastMousePos' = pos
        /\ exported' = NoExport
        /\ lastOp' = Op("handleMouseMove", "", FALSE)
        /\ UNCHANGED << message, selectedFormat, isDragging, dragTarget, view,
                        pending, nUploads, latestUpload, applied >>

\* the handler without setDragTarget(null)
handleMouseUp_KeepsTarget ==
    /\ isDragging' = FALSE
    /\ cursorStyle' = "default"
    /\ exported' = NoExport
    /\ lastOp' = Op("handleMouseUp", "", FALSE)
    /\ UNCHANGED << slots, message, messagePos, selectedFormat, lastMousePos,
                    dragTarget, pending, nUploads, latestUpload, applied, nMoves >>
    /\ Flush

\* onMouseUp / onMouseLeave / onTouchEnd
handleMouseUp ==
    /\ isDragging' = FALSE
    /\ dragTarget' = NullTarget
    /\ cursorStyle' = "default"
    /\ exported' = NoExport
    /\ lastOp' = Op("handleMouseUp", "", FALSE)
    /\ UNCHANGED << slots, message, messagePos, selectedFormat, lastMousePos,
                    pending, nUploads, latestUpload, applied, nMoves >>
    /\ Flush

\* the scheduled re-render after pointer moves; its effect runs draw
render ==
    /\ view # Snapshot(messagePos, lastMousePos)
    /\ view' = Snapshot(messagePos, lastMousePos)
    /\ exported' = NoExport
    /\ lastOp' = Op("other", "", FALSE)
    /\ UNCHANGED << slots, message, messagePos, selectedFormat, isDragging,
                    dragTarget, lastMousePos, cursorStyle, pending, nUploads,
                    latestUpload, applied, nMoves >>

\* the displayed height of the canvas: displaySize / (width / height)
displayH(f) == (PreviewWidth * FORMATS[f].h) \div FORMATS[f].w

\* a canvas whose backing store has the size it is displayed at
CanvasElement_DisplaySize(f) ==
    [ surface |-> "canvasRef", width |-> PreviewWidth, height |-> displayH(f) ]

\* the one canvas element: its ref, its width / height attributes and its
\* event bindings
CanvasElement(f) ==
    [ surface |-> "canvasRef", width |-> FORMATS[f].w, height |-> FORMATS[f].h ]

\* the surface that receives the pointer events
PointerSurface == "canvasRef"

\* download: canvasRef.current.toDataURL('image/png')
download ==
    /\ exported' = CanvasElement(selectedFormat)
    /\ lastOp' = Op("download", "", FALSE)
    /\ UNCHANGED << slots, message, messagePos, selectedFormat, isDragging,
                    dragTarget, lastMousePos, cursorStyle, view, pending,
                    nUploads, latestUpload, applied, nMoves >>

----------------------------------------------------------------------------
(* Spec: every operation, from the state after construction *)

Next ==
    \/ \E c \in UploadChoices : handleUpload(c.id, c.file)
    \/ \E u \in pending : readerOnload(u)
    \/ \E u \in pending : imgOnload(u)
    \/ \E u \in pending : loadFails(u)
    \/ \E f \in FormatChoices : selectFormat(f)
    \/ \E m \in Messages : setMessage(m)
    \/ \E pos \in PointerPositions : handleMouseDown(pos)
    \/ \E pos \in PointerPositions : nMoves < MaxPans /\ handleMouseMove(pos)
    \/ handleMouseUp
    \/ render
    \/ download

Spec == Init /\ [][Next]_vars

----------------------------------------------------------------------------
(* UploadSpec: the uploads, every file to every uploaded row *)

UploadNext ==
    \/ \E id \in UploadSlots, f \in Files : handleUpload(id, f.name)
    \/ \E u \in pending : readerOnload(u)
    \/ \E u \in pending : imgOnload(u)
    \/ \E u \in pending : loadFails(u)
    \/ \E f \in 1..Len(FORMATS) : selectFormat(f)

UploadSpec == Init /\ [][UploadNext]_vars

----------------------------------------------------------------------------
(* DragSpec: the interaction, from the state Spec reaches when wide.jpg    *)
(* has been applied to the hero slot and then tall.jpg to slot-6           *)

LoadedSlots ==
    SetSlotImage(SetSlotImage(INITIAL_SLOTS, "birthday", 1, "wide.jpg"),
                 "slot-6", 2, "tall.jpg")

DragInit ==
    /\ slots = LoadedSlots
    /\ message = DefaultMessage
    /\ messagePos = InitialMessagePos
    /\ selectedFormat = 1
    /\ isDragging = FALSE
    /\ dragTarget = NullTarget
    /\ lastMousePos = [ x |-> 0, y |-> 0 ]
    /\ cursorStyle = "default"
    /\ view = Snapshot(InitialMessagePos, [ x |-> 0, y |-> 0 ])
    /\ pending = {}
    /\ nUploads = 2
    /\ latestUpload = [ id \in SlotIds |->
                          IF id = "birthday" THEN 1 ELSE IF id = "slot-6" THEN 2 ELSE 0 ]
    /\ applied = { 1, 2 }
    /\ nMoves = 0
    /\ exported = NoExport
    /\ lastOp = [ op |-> "imgOnload", id |-> "slot-6", dragging |-> FALSE,
                  panned |-> FALSE ]

DragNext ==
    \/ \E f \in 1..Len(FORMATS) : selectFormat(f)
    \/ \E pos \in DragPositions : handleMouseDown(pos)
    \/ \E pos \in DragPositions : nMoves < MaxMoves /\ handleMouseMove(pos)
    \/ handleMouseUp
    \/ render
    \/ download

DragSpec == DragInit /\ [][DragNext]_vars

----------------------------------------------------------------------------
(* MoveSpec: drags in which pointer moves may outrun the re-render, from   *)
(* the same state as DragSpec, with pointer positions up to the edge       *)

MoveNext ==
    \/ \E f \in FormatChoices : selectFormat(f)
    \/ \E pos \in MovePositions : handleMouseDown(pos)
    \/ \E pos \in MovePositions : nMoves < MaxBurst /\ handleMouseMove(pos)
    \/ handleMouseUp
    \/ render

MoveSpec == DragInit /\ [][MoveNext]_vars

----------------------------------------------------------------------------
(* Properties *)

ImageOf(slot) == FileNamed(slot.file)

Offset(slot) == << slot.imageOffsetX, slot.imageOffsetY >>

\* C1: when every upload to a slot has completed and the most recent one was
\* applied, the slot holds the image of the most recent upload, whatever the
\* order in which the reads and decodes completed.
C1_AppliedInUploadOrder ==
    \A id \in SlotIds :
        ( /\ latestUpload[id] \in applied
          /\ \A u \in pending : u.id # id )
        => SlotWithId(slots, id).image = latestUpload[id]

\* the pointer is inside the caption hit region of the current anchor
InCaptionRegion(pos) == HitsText(pos, messagePos, selectedFormat)

\* the slots that hold an image and whose circle the pointer is strictly inside
ImagedSlotsAt(pos) ==
    { i \in 1..Len(slots) :
        /\ slots[i].image # NullImage
        /\ HitsSlot(pos, slots[i], selectedFormat) }

DownFromIdle == lastOp.op = "handleMouseDown" /\ ~lastOp.dragging

\* C2: after a pointer-down from Idle at a position inside the caption hit
\* region and strictly inside the circle of a slot holding an image, the
\* controller is Dragging(caption).
C2_CaptionWins ==
    ( DownFromIdle /\ InCaptionRegion(lastMousePos)
        /\ ImagedSlotsAt(lastMousePos) # {} )
    => ( isDragging /\ dragTarget = MessageTarget )

C2_Witness ==
    /\ DownFromIdle
    /\ InCaptionRegion(lastMousePos)
    /\ ImagedSlotsAt(lastMousePos) # {}
    /\ isDragging
    /\ dragTarget = MessageTarget

\* C3: after a pointer-down from Idle outside the caption hit region, the drag
\* target is the first slot in array order that the pointer is strictly inside
\* and that holds an image; if there is none the controller is still Idle; and
\* the drag target is never a slot without an image.
C3_FirstImagedSlot ==
    /\ dragTarget.type = "slot" =>
          SlotWithId(slots, dragTarget.id).image # NullImage
    /\ ( DownFromIdle /\ ~InCaptionRegion(lastMousePos) ) =>
          IF ImagedSlotsAt(lastMousePos) # {}
          THEN /\ isDragging
               /\ \E i \in ImagedSlotsAt(lastMousePos) :
                     /\ \A j \in ImagedSlotsAt(lastMousePos) : i <= j
                     /\ dragTarget = SlotTarget(slots[i].id)
          ELSE ~isDragging /\ dragTarget = NullTarget

C3_Witness ==
    /\ DownFromIdle
    /\ ~InCaptionRegion(lastMousePos)
    /\ isDragging
    /\ dragTarget = SlotTarget("birthday")

\* C4: a pointer-up or pointer-leave leaves the controller Idle with no drag
\* target; while Idle a pointer move edits neither the slots nor the caption
\* anchor, and only a pointer-down leaves Idle.
C4_ReleaseToIdle ==
    [][ /\ lastOp'.op = "handleMouseUp" =>
              ( ~isDragging' /\ dragTarget' = NullTarget )
        /\ ( ~isDragging /\ dragTarget = NullTarget
               /\ lastOp'.op = "handleMouseMove" ) =>
              ( slots' = slots /\ messagePos' = messagePos )
        /\ ( ~isDragging /\ isDragging' ) => lastOp'.op = "handleMouseDown"
      ]_vars

C4_Witness ==
    /\ lastOp.op = "handleMouseUp"
    /\ lastOp.dragging
    /\ nMoves > 0
    /\ ~isDragging
    /\ dragTarget = NullTarget

\* C5: the controller is Idle or Dragging exactly one target, and while it is
\* Dragging the target stays the same through every event but a pointer-up or
\* pointer-leave.
C5_TargetFixedWhileDragging ==
    [][ /\ isDragging <=> dragTarget # NullTarget
        /\ ( isDragging /\ lastOp'.op # "handleMouseUp" ) =>
              ( isDragging' /\ dragTarget' = dragTarget )
      ]_vars

\* C6: a slot's pan offset is (0, 0) after a decoded image is applied to it, a
\* slot's image changes only then, and the only other step that changes a pan
\* offset is a pointer move while that slot is the drag target.
C6_PanResetOnlyByNewImage ==
    [][ \A i \in 1..Len(slots) :
          /\ ( lastOp'.op = "imgOnload" /\ lastOp'.id = slots[i].id ) =>
                Offset(slots'[i]) = << 0, 0 >>
          /\ slots'[i].image # slots[i].image =>
                ( lastOp'.op = "imgOnload" /\ lastOp'.id = slots[i].id
                    /\ Offset(slots'[i]) = << 0, 0 >> )
          /\ Offset(slots'[i]) # Offset(slots[i]) =>
                \/ lastOp'.op = "imgOnload" /\ lastOp'.id = slots[i].id
                \/ /\ lastOp'.op = "handleMouseMove"
                   /\ isDragging
                   /\ dragTarget = SlotTarget(slots[i].id)
      ]_vars

C6_Witness ==
    /\ lastOp.op = "imgOnload"
    /\ lastOp.panned
    /\ Offset(SlotWithId(slots, lastOp.id)) = << 0, 0 >>

\* C7: the slot set always has 13 elements, 1 with isCenter and 12 without, in
\* the array order of construction, with pairwise distinct ids, and each
\* slot's id, label, centre and radius are those of construction.
C7_SlotSetFixed ==
    /\ Len(slots) = 13
    /\ Cardinality({ i \in 1..Len(slots) : slots[i].isCenter }) = 1
    /\ Cardinality({ i \in 1..Len(slots) : ~slots[i].isCenter }) = 12
    /\ \A i, j \in 1..Len(slots) : slots[i].id = slots[j].id => i = j
    /\ \A i \in 1..Len(slots) :
          /\ slots[i].id = INITIAL_SLOTS[i].id
          /\ slots[i].label = INITIAL_SLOTS[i].label
          /\ slots[i].x = INITIAL_SLOTS[i].x
          /\ slots[i].y = INITIAL_SLOTS[i].y
          /\ slots[i].radius = INITIAL_SLOTS[i].radius
          /\ slots[i].isCenter = INITIAL_SLOTS[i].isCenter

C7_Witness ==
    /\ nMoves > 0
    /\ \E i \in 1..Len(slots) :
          slots[i].image # NullImage /\ Offset(slots[i]) # << 0, 0 >>
    /\ selectedFormat # 1
    /\ message # DefaultMessage

\* C8: a pointer move while Dragging(slot s), with display-fraction delta
\* (dx, dy) against the last pointer position the handler holds, on a canvas
\* of W x H pixels adds exactly (dx * W / min(W, H), dy * H / min(W, H)) to the
\* pan offset of s.
C8_PanDelta ==
    [][ ( lastOp'.op = "handleMouseMove" /\ isDragging
            /\ dragTarget.type = "slot" ) =>
          LET W == FORMATS[selectedFormat].w
              H == FORMATS[selectedFormat].h
              dx == lastMousePos'.x - view.lastMousePos.x
              dy == lastMousePos'.y - view.lastMousePos.y
              before == SlotWithId(slots, dragTarget.id)
              after == SlotWithId(slots', dragTarget.id)
          IN  /\ (after.imageOffsetX - before.imageOffsetX) * Min(W, H)
                    = dx * W * OFFSET_DEN
              /\ (after.imageOffsetY - before.imageOffsetY) * Min(W, H)
                    = dy * H * OFFSET_DEN
      ]_vars

C8_Witness ==
    /\ lastOp.op = "handleMouseMove"
    /\ isDragging
    /\ dragTarget = SlotTarget("birthday")
    /\ FORMATS[selectedFormat].w > FORMATS[selectedFormat].h
    /\ SlotWithId(slots, "birthday").imageOffsetX # 0

\* the rectangle draw gives the photo of a slot, before the pan offset
PhotoRect(slot, f) ==
    AspectFill(ImageOf(slot).width, ImageOf(slot).height,
               SlotCircle(slot, f).cx, SlotCircle(slot, f).cy, SlotCircle(slot, f).r)

CoversBoundingSquare(rect, c) ==
    /\ rect.offsetX <= c.cx - c.r
    /\ rect.offsetX + rect.drawWidth >= c.cx + c.r
    /\ rect.offsetY <= c.cy - c.r
    /\ rect.offsetY + rect.drawHeight >= c.cy + c.r

\* C9 (as stated): the photo's rectangle covers the circle's bounding square
\* and exactly one dimension equals 2r: the width if the image is wider than
\* tall, otherwise the height.
C9_WidthFillsWhenWide ==
    \A i \in 1..Len(slots) :
        slots[i].image # NullImage =>
            LET rect == PhotoRect(slots[i], selectedFormat)
                c == SlotCircle(slots[i], selectedFormat)
            IN  /\ CoversBoundingSquare(rect, c)
                /\ IF ImageOf(slots[i]).width > ImageOf(slots[i]).height
                   THEN rect.drawWidth = 2 * c.r /\ rect.drawHeight # 2 * c.r
                   ELSE rect.drawHeight = 2 * c.r /\ rect.drawWidth # 2 * c.r

\* C9 (amended): the photo's rectangle covers the circle's bounding square;
\* the height equals 2r and the width exceeds it if the image is wider than
\* tall, otherwise the width equals 2r and the height is at least 2r.
C9_AspectFill ==
    \A i \in 1..Len(slots) :
        slots[i].image # NullImage =>
            LET rect == PhotoRect(slots[i], selectedFormat)
                c == SlotCircle(slots[i], selectedFormat)
            IN  /\ CoversBoundingSquare(rect, c)
                /\ IF ImageOf(slots[i]).width > ImageOf(slots[i]).height
                   THEN rect.drawHeight = 2 * c.r /\ rect.drawWidth > 2 * c.r
                   ELSE rect.drawWidth = 2 * c.r /\ rect.drawHeight >= 2 * c.r

C9_Witness ==
    /\ \E i \in 1..Len(slots) : slots[i].image # NullImage /\ slots[i].file = "wide.jpg"
    /\ \E i \in 1..Len(slots) : slots[i].image # NullImage /\ slots[i].file = "tall.jpg"
    /\ selectedFormat = 4

InDisplayedCanvas(pos) ==
    /\ 0 <= pos.x /\ pos.x <= UNIT
    /\ 0 <= pos.y /\ pos.y <= UNIT

\* C11: with every pointer position within the displayed canvas, the caption
\* anchor stays within the unit square of the full canvas: 0 <= x <= 1 and
\* 0 <= y <= 1.
C11_AnchorInUnitSquare ==
    InDisplayedCanvas(lastMousePos) =>
        /\ 0 <= messagePos.x /\ messagePos.x <= UNIT
        /\ 0 <= messagePos.y /\ messagePos.y <= UNIT

\* the uploads issued so far that are not in flight and were not applied:
\* their read or decode failed
FailedUploads(pend, appl, n) ==
    { t \in 1..n : t \notin appl /\ \A u \in pend : u.token # t }

\* C12: no step of an upload but the completion of its decode changes a slot:
\* when the read or the decode fails, the image, file and pan offset of its
\* slot and every other slot are what they were before the upload; a slot
\* without an image still has none and is drawn as a placeholder.
C12_FailedUploadLeavesSlots ==
    [][ /\ ( pending' # pending /\ applied' = applied ) => slots' = slots
        /\ FailedUploads(pending', applied', nUploads')
               # FailedUploads(pending, applied, nUploads) =>
              /\ slots' = slots
              /\ \A i \in 1..Len(slots) :
                    slots[i].image = NullImage => DrawsPlaceholder(slots'[i])
      ]_vars

C12_Witness ==
    \E id \in SlotIds :
        /\ latestUpload[id] \in FailedUploads(pending, applied, nUploads)
        /\ \E t \in applied :
              /\ t < latestUpload[id]
              /\ SlotWithId(slots, id).image = t
        /\ \E i \in 1..Len(slots) : DrawsPlaceholder(slots[i])

\* C13: during a drag of slot s the pan offset of s is its value at drag start
\* plus the net pointer displacement since the pointer-down, converted by
\* W / min(W, H) and H / min(W, H); equivalently, every pointer move adds the
\* converted displacement from the previous pointer position, whether or not
\* the component has re-rendered since the previous move.
C13_PanFollowsPointer ==
    [][ ( lastOp'.op = "handleMouseMove" /\ isDragging
            /\ dragTarget.type = "slot" ) =>
          LET W == FORMATS[selectedFormat].w
              H == FORMATS[selectedFormat].h
              dx == lastMousePos'.x - lastMousePos.x
              dy == lastMousePos'.y - lastMousePos.y
              before == SlotWithId(slots, dragTarget.id)
              after == SlotWithId(slots', dragTarget.id)
          IN  /\ (after.imageOffsetX - before.imageOffsetX) * Min(W, H)
                    = dx * W * OFFSET_DEN
              /\ (after.imageOffsetY - before.imageOffsetY) * Min(W, H)
                    = dy * H * OFFSET_DEN
      ]_vars

\* the canvas-pixel position (pos.x * W, pos.y * H) lies strictly inside the
\* circle draw clips the photo of the slot to
InsideDrawnCircle(pos, slot, f) ==
    LET c == SlotCircle(slot, f)
    IN  DistLess(pos.x * Width(f) - c.cx, pos.y * Height(f) - c.cy, c.r)

\* C14: on the canvas of every selected format, for every slot holding an
\* image and every pointer position outside the caption hit region, the slot
\* hit-test succeeds exactly when the pointer's canvas-pixel position lies
\* strictly inside the circle the photo is clipped to; and a pointer-down from
\* Idle at such a position makes the slot the drag target exactly then.
C14_HitTestMatchesDraw ==
    /\ \A i \in 1..Len(slots) :
          slots[i].image # NullImage =>
              \A pos \in ProbePositions :
                  ~InCaptionRegion(pos) =>
                      ( HitsSlot(pos, slots[i], selectedFormat)
                          <=> InsideDrawnCircle(pos, slots[i], selectedFormat) )
    /\ ( DownFromIdle /\ ~InCaptionRegion(lastMousePos) ) =>
          \A i \in 1..Len(slots) :
              slots[i].image # NullImage =>
                  ( dragTarget = SlotTarget(slots[i].id)
                      <=> InsideDrawnCircle(lastMousePos, slots[i], selectedFormat) )

C14_Witness ==
    /\ DownFromIdle
    /\ ~InCaptionRegion(lastMousePos)
    /\ paddingX(selectedFormat) > 0
    /\ dragTarget = SlotTarget("slot-6")
    /\ InsideDrawnCircle(lastMousePos, SlotWithId(slots, "slot-6"), selectedFormat)
    /\ ~InsideDrawnCircle(lastMousePos, SlotWithId(slots, "birthday"), selectedFormat)

\* the slot with its pan offset set to (ox, oy)
WithOffset(slot, ox, oy) ==
    [ slot EXCEPT !.imageOffsetX = ox, !.imageOffsetY = oy ]

\* C15: a pointer move edits at most the drag target.  While Dragging(caption)
\* the anchor moves by exactly the display-fraction delta from the previous
\* pointer position and no slot changes; while Dragging(slot s) nothing of s
\* but its pan offset changes and the anchor, the caption text and every
\* other slot are unchanged; while Idle neither the anchor nor a slot changes.
C15_MoveEditsOnlyTarget ==
    [][ lastOp'.op = "handleMouseMove" =>
          /\ message' = message
          /\ ( ~isDragging \/ dragTarget = NullTarget ) =>
                ( messagePos' = messagePos /\ slots' = slots )
          /\ ( isDragging /\ dragTarget.type = "message" ) =>
                /\ slots' = slots
                /\ messagePos'.x - messagePos.x = lastMousePos'.x - lastMousePos.x
                /\ messagePos'.y - messagePos.y = lastMousePos'.y - lastMousePos.y
          /\ ( isDragging /\ dragTarget.type = "slot" ) =>
                /\ messagePos' = messagePos
                /\ \A i \in 1..Len(slots) :
                      IF slots[i].id = dragTarget.id
                      THEN WithOffset(slots'[i], slots[i].imageOffsetX,
                                      slots[i].imageOffsetY) = slots[i]
                      ELSE slots'[i] = slots[i]
      ]_vars

C15_Witness ==
    /\ lastOp.op = "handleMouseMove"
    /\ isDragging
    /\ dragTarget = SlotTarget("birthday")
    /\ nMoves = MaxBurst
    /\ Offset(SlotWithId(slots, "birthday")) # << 0, 0 >>
    /\ Offset(SlotWithId(slots, "slot-6")) = << 0, 0 >>
    /\ messagePos # InitialMessagePos
    /\ view.lastMousePos # lastMousePos

\* C16: the caption hit-test does not depend on the caption text.  After a
\* pointer-down from Idle inside the caption hit region the controller is
\* Dragging(caption), whether or not a caption is drawn, so no slot becomes
\* the drag target from a position inside the region.
C16_CaptionHitIgnoresText ==
    \A drawn \in BOOLEAN :
        ( /\ DrawsCaption(message) = drawn
          /\ DownFromIdle
          /\ InCaptionRegion(lastMousePos) )
        => ( isDragging /\ dragTarget.type = "message" )

C16_Witness ==
    /\ message = ""
    /\ ~DrawsCaption(message)
    /\ DownFromIdle
    /\ InCaptionRegion(lastMousePos)
    /\ ImagedSlotsAt(lastMousePos) # {}
    /\ isDragging
    /\ dragTarget = MessageTarget

====
